---------------------------- MODULE Spec2Model ----------------------------
(***************************************************************************)
(* The data-cleaning cell of COVID19_Global_Data_Tracker.ipynb: three wide *)
(* JHU cumulative-count tables and the long OWID table are reshaped,       *)
(* merged, filtered by the selected countries, filled, differenced and     *)
(* left-joined into df_combined.                                           *)
(*                                                                         *)
(* A DataFrame is a sequence of records (its rows, in row order).  A       *)
(* numeric cell is a float: a fraction n/d, NaN, or +/- infinity.  A JHU   *)
(* date header "m/d/yy" is the tuple <<m, d, yy>>, an OWID date            *)
(* "yyyy-mm-dd" the tuple <<yyyy, mm, dd>>; a parsed date is the number    *)
(* yyyymmdd.  The text typed at the prompt is a sequence of tokens         *)
(* (words, "," and " ").                                                   *)
(***************************************************************************)
EXTENDS Integers, Sequences, FiniteSets, TLC

VARIABLES pc, df_confirmed, df_deaths, df_recovered, df_owid,
          df_confirmed_long, df_deaths_long, df_recovered_long, df_jhu,
          user_input, countries, countries_jhu, stdout, exception,
          df_jhu_filtered, df_owid_filtered, df_combined

vars == <<pc, df_confirmed, df_deaths, df_recovered, df_owid,
          df_confirmed_long, df_deaths_long, df_recovered_long, df_jhu,
          user_input, countries, countries_jhu, stdout, exception,
          df_jhu_filtered, df_owid_filtered, df_combined>>

(***************************************************************************)
(* Bounds of the model.                                                    *)
(***************************************************************************)
NumDates == 2
MaxVal == 2

(***************************************************************************)
(* Floats.                                                                 *)
(***************************************************************************)
NaN == [k |-> "nan", n |-> 0, d |-> 0]
PosInf == [k |-> "inf", n |-> 1, d |-> 0]
NegInf == [k |-> "inf", n |-> -1, d |-> 0]

Abs(a) == IF a < 0 THEN -a ELSE a

RECURSIVE GCD(_, _)
GCD(a, b) == IF b = 0 THEN a ELSE GCD(b, a % b)

Num(a, b) ==
  LET s == IF b < 0 THEN -1 ELSE 1
      g == GCD(Abs(a), Abs(b))
  IN  [k |-> "num", n |-> (s * a) \div g, d |-> (s * b) \div g]

Float(a) == [k |-> "num", n |-> a, d |-> 1]

IsNaN(x) == x.k = "nan"

\* x - y on floats (Series.diff subtracts neighbouring cells)
Sub(x, y) ==
  IF x.k = "num" /\ y.k = "num" THEN Num(x.n * y.d - y.n * x.d, x.d * y.d)
  ELSE IF x.k = "inf" /\ y.k = "num" THEN x
  ELSE IF x.k = "num" /\ y.k = "inf" THEN (IF y.n > 0 THEN NegInf ELSE PosInf)
  ELSE IF x.k = "inf" /\ y.k = "inf" /\ x.n # y.n THEN x
  ELSE NaN

\* x * y on floats
Mul(x, y) ==
  IF x.k = "nan" \/ y.k = "nan" THEN NaN
  ELSE IF x.k = "num" /\ y.k = "num" THEN Num(x.n * y.n, x.d * y.d)
  ELSE IF x.n * y.n = 0 THEN NaN
  ELSE IF x.n * y.n > 0 THEN PosInf ELSE NegInf

\* x / y on floats: a zero divisor gives an infinity, or NaN for 0 / 0
Div(x, y) ==
  IF x.k = "nan" \/ y.k = "nan" THEN NaN
  ELSE IF x.k = "inf" /\ y.k = "inf" THEN NaN
  ELSE IF x.k = "inf" THEN (IF y.n < 0 THEN Sub(Float(0), x) ELSE x)
  ELSE IF y.k = "inf" THEN Float(0)
  ELSE IF y.n = 0 THEN (IF x.n = 0 THEN NaN ELSE IF x.n > 0 THEN PosInf ELSE NegInf)
  ELSE Num(x.n * y.d, x.d * y.n)

\* Series.fillna(v) on one cell
fillna(x, v) == IF IsNaN(x) THEN v ELSE x

\* Series.replace(a, b) on one cell
replace(x, a, b) == IF x = a THEN b ELSE x

(***************************************************************************)
(* Generic sequence helpers.                                               *)
(***************************************************************************)
RECURSIVE Flatten(_)
Flatten(ss) == IF ss = <<>> THEN <<>> ELSE Head(ss) \o Flatten(Tail(ss))

Range(s) == {s[i] : i \in 1..Len(s)}


(***************************************************************************)
(* DataFrame operations used by the cell.                                  *)
(***************************************************************************)
\* The four identifier columns every JHU table starts with
id_vars == <<"Province/State", "Country/Region", "Lat", "Long">>

\* The cell of an object column that holds no value
NaNObj == "<NaN>"

\* Parseable accepting every string
Parseable_any(s) == TRUE

\* pd.to_datetime can read the date string: its month is 1..12, its day 1..31
Parseable(s) ==
  IF s[1] >= 1000 THEN s[2] \in 1..12 /\ s[3] \in 1..31
  ELSE s[1] \in 1..12 /\ s[2] \in 1..31

\* pd.to_datetime on one date string: "m/d/yy" (JHU) or "yyyy-mm-dd" (OWID)
to_datetime(s) ==
  IF s[1] >= 1000 THEN s[1] * 10000 + s[2] * 100 + s[3]
  ELSE (2000 + s[3]) * 10000 + s[1] * 100 + s[2]

\* pd.melt(df, id_vars, value_vars = value_vars, var_name = 'date',
\* value_name = value_name): one record per (row, value column), column by column
melt(df, value_vars, value_name) ==
  Flatten([j \in 1..Len(value_vars) |->
    [i \in 1..Len(df.rows) |->
      [Province_State |-> df.rows[i][1],
       Country_Region |-> df.rows[i][2],
       Lat |-> df.rows[i][3],
       Long |-> df.rows[i][4],
       date |-> value_vars[j]] @@ (value_name :> df.rows[i][Len(id_vars) + j])]])

\* DateColumns starting one column late: df.columns[5:]
DateColumns_from_5(df) == SubSeq(df.columns, Len(id_vars) + 2, Len(df.columns))

\* df.columns[4:]
DateColumns(df) == SubSeq(df.columns, Len(id_vars) + 1, Len(df.columns))

reshape_jhu(df, value_name) == melt(df, DateColumns(df), value_name)

\* df['date'] = pd.to_datetime(df['date'])
ConvertDates(df) == [i \in 1..Len(df) |-> [df[i] EXCEPT !.date = to_datetime(@)]]

\* pd.to_datetime(df['date']) reads every cell of the column (it raises otherwise)
CanConvert(df) == \A i \in 1..Len(df) : Parseable(df[i].date)

\* df[[c1, c2, ...]]
Project(df, cols) == [i \in 1..Len(df) |-> [c \in cols |-> df[i][c]]]

\* df.drop(columns = cols)
Drop(df, cols) == [i \in 1..Len(df) |-> [c \in (DOMAIN df[i]) \ cols |-> df[i][c]]]

\* left.merge(right, left_on = lkeys, right_on = rkeys, how = how) for how in
\* {"inner", "left"}: the left rows in order, each with every right row of equal
\* key; under "left" a left row without a match is kept with the right columns unset
merge(left, right, lkeys, rkeys, how, unset) ==
  LET Match(l, r) == \A q \in 1..Len(lkeys) : l[lkeys[q]] = r[rkeys[q]]
      RowsOf(l) ==
        LET ms == SelectSeq(right, LAMBDA r : Match(l, r))
        IN  IF ms = <<>>
            THEN (IF how = "left" THEN <<l @@ unset>> ELSE <<>>)
            ELSE [q \in 1..Len(ms) |-> l @@ ms[q]]
  IN  Flatten([i \in 1..Len(left) |-> RowsOf(left[i])])

\* Python's order of the country names of the model (code-point order)
NameOrder == <<"", "Atlantis", "China", "India", "Kenya", "US", "United States">>

NameRank(c) == CHOOSE i \in 1..Len(NameOrder) : NameOrder[i] = c

\* row a sorts strictly before row b under sort_values(['Country/Region', 'date'])
RowLess(a, b) ==
  \/ NameRank(a.Country_Region) < NameRank(b.Country_Region)
  \/ /\ a.Country_Region = b.Country_Region
     /\ a.date < b.date

\* insertion of row r after the rows that do not sort after it (stable)
RECURSIVE InsertRow(_, _)
InsertRow(sorted, r) ==
  IF sorted = <<>> THEN <<r>>
  ELSE IF RowLess(r, Head(sorted)) THEN <<r>> \o sorted
  ELSE <<Head(sorted)>> \o InsertRow(Tail(sorted), r)

RECURSIVE sort_values(_)
sort_values(df) ==
  IF df = <<>> THEN <<>>
  ELSE InsertRow(sort_values(SubSeq(df, 1, Len(df) - 1)), df[Len(df)])

\* groupby_diff without the grouping: df[col].diff()
ungrouped_diff(df, col) ==
  [i \in 1..Len(df) |-> IF i = 1 THEN NaN ELSE Sub(df[i][col], df[i - 1][col])]

\* df.groupby('Country/Region')[col].diff(): each cell minus the cell of the
\* previous row of the same group, NaN on a group's first row
groupby_diff(df, col) ==
  [i \in 1..Len(df) |->
    LET before == {j \in 1..(i - 1) : df[j].Country_Region = df[i].Country_Region}
    IN  IF before = {} THEN NaN
        ELSE Sub(df[i][col], df[CHOOSE j \in before : \A q \in before : q <= j][col])]


(***************************************************************************)
(* The statements of the data-cleaning cell, as functions of what they     *)
(* read.                                                                   *)
(***************************************************************************)
jhu_keys == <<"Country_Region", "date">>

\* df_jhu: confirmed inner-joined with deaths, then left-joined with recovered
MergeJhu(cl, dl, rl) ==
  merge(merge(Project(cl, {"Country_Region", "date", "total_cases"}),
              Project(dl, {"Country_Region", "date", "total_deaths"}),
              jhu_keys, jhu_keys, "inner", <<>>),
        Project(rl, {"Country_Region", "date", "total_recovered"}),
        jhu_keys, jhu_keys, "left", [total_recovered |-> NaN])

owid_columns ==
  {"location", "date", "total_vaccinations", "people_fully_vaccinated",
   "population", "iso_code"}

default_countries == <<"Kenya", "United States", "India">>

\* what the cell writes to the screen: the defaults, then the prompt
Printed ==
  <<[text |-> "Default countries:", names |-> default_countries],
    [text |-> "Enter countries to analyze (comma-separated, e.g., Kenya,United States,India) or press Enter to use defaults: ",
     names |-> <<>>]>>

\* s.split(','): the pieces of s between its commas
RECURSIVE split(_)
split(s) ==
  IF \A i \in 1..Len(s) : s[i] # ","
  THEN <<s>>
  ELSE LET c == CHOOSE i \in 1..Len(s) : s[i] = "," /\ \A j \in 1..(i - 1) : s[j] # ","
       IN  <<SubSeq(s, 1, c - 1)>> \o split(SubSeq(s, c + 1, Len(s)))

\* c.strip(): c without its leading and trailing blanks
RECURSIVE strip(_)
strip(c) ==
  IF c # <<>> /\ Head(c) = " " THEN strip(Tail(c))
  ELSE IF c # <<>> /\ c[Len(c)] = " " THEN strip(SubSeq(c, 1, Len(c) - 1))
  ELSE c

\* the string a sequence of tokens spells
RECURSIVE Text(_)
Text(c) == IF c = <<>> THEN "" ELSE Head(c) \o Text(Tail(c))

\* Countries without the strip() of each name
Countries_no_strip(input) ==
  IF input # <<>>
  THEN LET parts == split(input) IN [i \in 1..Len(parts) |-> Text(parts[i])]
  ELSE default_countries

\* countries: the names typed, or the defaults when nothing was typed
Countries(input) ==
  IF input # <<>>
  THEN LET parts == split(input) IN [i \in 1..Len(parts) |-> Text(strip(parts[i]))]
  ELSE default_countries

jhu_to_owid == ("US" :> "United States")

\* jhu_to_owid.get(c, c)
get(m, c) == IF c \in DOMAIN m THEN m[c] ELSE c

CountriesJhu(cs) == [i \in 1..Len(cs) |-> get(jhu_to_owid, cs[i])]

\* isin keeping every row
isin_all(df, col, names) == df

\* df[df[col].isin(names)]
isin(df, col, names) == SelectSeq(df, LAMBDA r : r[col] \in Range(names))

\* df.fillna({c: 0 for c in cols})
FillZero(df, cols) ==
  [i \in 1..Len(df) |->
    [c \in DOMAIN df[i] |-> IF c \in cols THEN fillna(df[i][c], Float(0)) ELSE df[i][c]]]

\* df_jhu_filtered after the filter and the fill
JhuFiltered(jhu, cjs) ==
  FillZero(isin(jhu, "Country_Region", cjs),
           {"total_cases", "total_deaths", "total_recovered"})

\* df_owid_filtered after the filter and the fill
OwidFiltered(owid, cs) ==
  FillZero(isin(owid, "location", cs), {"total_vaccinations", "people_fully_vaccinated"})

\* DailyMetrics dividing by total_cases as it is, without replace(0, 1)
DailyMetrics_no_replace(df) ==
  LET s == sort_values(df)
      nc == groupby_diff(s, "total_cases")
      nd == groupby_diff(s, "total_deaths")
  IN  [i \in 1..Len(s) |->
        s[i] @@ [new_cases |-> fillna(nc[i], Float(0)),
                 new_deaths |-> fillna(nd[i], Float(0)),
                 death_rate |-> Div(s[i].total_deaths, s[i].total_cases)]]

\* sort, then new_cases, new_deaths and death_rate
DailyMetrics(df) ==
  LET s == sort_values(df)
      nc == groupby_diff(s, "total_cases")
      nd == groupby_diff(s, "total_deaths")
  IN  [i \in 1..Len(s) |->
        s[i] @@ [new_cases |-> fillna(nc[i], Float(0)),
                 new_deaths |-> fillna(nd[i], Float(0)),
                 death_rate |-> Div(s[i].total_deaths,
                                    replace(s[i].total_cases, Float(0), Float(1)))]]

\* vaccination_rate = people_fully_vaccinated / population * 100
VaccinationRate(df) ==
  [i \in 1..Len(df) |->
    df[i] @@ [vaccination_rate |->
                Mul(Div(df[i].people_fully_vaccinated, df[i].population), Float(100))]]

\* df['Country/Region'].replace(jhu_to_owid)
ReplaceCountry(df) ==
  [i \in 1..Len(df) |-> [df[i] EXCEPT !.Country_Region = get(jhu_to_owid, @)]]

\* the OWID columns of a row of the left join that matched no OWID record
owid_unset ==
  [location |-> NaNObj, total_vaccinations |-> NaN, people_fully_vaccinated |-> NaN,
   population |-> NaN, iso_code |-> NaNObj, vaccination_rate |-> NaN]

\* MergeDatasets with an inner join in place of the left join
MergeDatasets_inner(jf, of) ==
  Drop(merge(jf, of, <<"Country_Region", "date">>, <<"location", "date">>,
             "inner", owid_unset),
       {"location"})

\* df_combined: the JHU panel left-joined with the OWID table, location dropped
MergeDatasets(jf, of) ==
  Drop(merge(jf, of, <<"Country_Region", "date">>, <<"location", "date">>,
             "left", owid_unset),
       {"location"})


(***************************************************************************)
(* The inputs: what the loading cell read from the four CSV files, and     *)
(* what is typed at the prompt.                                            *)
(***************************************************************************)
\* the date headers of the JHU tables: "1/22/20", "1/23/20", ...
DateHeaders == [j \in 1..NumDates |-> <<1, 21 + j, 20>>]

\* the same days as OWID writes them, and one day before the JHU tables start
OwidDate(j) == <<2020, 1, 21 + j>>

\* the identifier cells of a JHU row: Province/State, Country/Region, Lat, Long
Kenya == <<NaNObj, "Kenya", 0, 38>>
US == <<NaNObj, "US", 40, -100>>
Hubei == <<"Hubei", "China", 31, 112>>
Beijing == <<"Beijing", "China", 40, 116>>

RowLists == {<<Kenya>>, <<US, Kenya>>, <<Hubei, Beijing>>, <<Kenya, Hubei>>}

\* a row's cells under the date columns
Series(cells) == [1..NumDates -> cells]

Counts == {Float(v) : v \in 0..MaxVal}

Min(a, b) == IF a < b THEN a ELSE b

\* a counter that rises by one a day up to MaxVal, and one that falls (a revision)
Rising == [j \in 1..NumDates |-> Float(Min(j, MaxVal))]
Falling == [j \in 1..NumDates |-> Float(MaxVal - Min(j - 1, MaxVal))]

\* the cells of the first row of a confirmed table: any counts, or none reported
FirstSeries == Series(Counts) \cup {[j \in 1..NumDates |-> NaN]}

\* the cells of its other rows
OtherSeries == {Rising, Falling}

\* the cells of each row of a deaths or recovered table
DeathSeries == {[j \in 1..NumDates |-> Float(v)] : v \in 0..MaxVal} \cup {Rising}

WideTable(ids, cells) ==
  [columns |-> id_vars \o DateHeaders,
   rows |-> [i \in 1..Len(ids) |-> ids[i] \o cells[i]]]

\* the three JHU tables over the rows ids: the same rows in each; the recovered
\* table may have been discontinued (no rows)
JhuTablesOf(ids) ==
  {[confirmed |-> WideTable(ids, [i \in 1..Len(ids) |-> IF i = 1 THEN c ELSE o]),
    deaths |-> WideTable(ids, [i \in 1..Len(ids) |-> d]),
    recovered |-> IF r THEN WideTable(ids, [i \in 1..Len(ids) |-> d])
                  ELSE WideTable(<<>>, <<>>)] :
     c \in FirstSeries, o \in OtherSeries, d \in DeathSeries, r \in BOOLEAN}

JhuTables == UNION {JhuTablesOf(ids) : ids \in RowLists}

JhuFew ==
  {[confirmed |-> WideTable(ids, [i \in 1..Len(ids) |-> Rising]),
    deaths |-> WideTable(ids, [i \in 1..Len(ids) |-> Rising]),
    recovered |-> WideTable(ids, [i \in 1..Len(ids) |-> Rising])] : ids \in RowLists}

\* one OWID record
OwidRecord(loc, date, tv, pfv, pop) ==
  [iso_code |-> IF loc = "Kenya" THEN "KEN" ELSE IF loc = "India" THEN "IND" ELSE "USA",
   continent |-> IF loc = "Kenya" THEN "Africa" ELSE IF loc = "India" THEN "Asia"
                 ELSE "North America",
   location |-> loc, date |-> date, total_vaccinations |-> tv,
   people_fully_vaccinated |-> pfv, population |-> pop]

OwidRecords ==
  {OwidRecord(loc, OwidDate(j), tv, pfv, pop) :
     loc \in {"Kenya", "United States", "India"}, j \in 0..1,
     tv \in {NaN, Float(MaxVal)}, pfv \in {NaN, Float(0), Float(1)},
     pop \in {NaN, Float(0), Float(4), Float(-4)}}

\* the OWID table: (location, date) is its key
OwidTables ==
  {<<>>} \cup {<<a>> : a \in OwidRecords}
  \cup {<<a, OwidRecord("Kenya", OwidDate(NumDates), Float(MaxVal), Float(1), Float(4))>> :
          a \in {b \in OwidRecords : b.location = "Kenya"}}

OwidFew == {<<>>, <<OwidRecord("Kenya", OwidDate(1), Float(MaxVal), Float(1), Float(4))>>}

\* a header that is no date: "13/32/20"
BadHeader == <<13, 32, 20>>

\* the table with its last date header unreadable
WithBadHeader(df) == [df EXCEPT !.columns[Len(df.columns)] = BadHeader]

\* the table without its date columns
NoDateColumns(df) ==
  [columns |-> id_vars, rows |-> [i \in 1..Len(df.rows) |-> SubSeq(df.rows[i], 1, 4)]]

\* JHU tables with an unreadable header or without date columns
JhuBroken ==
  UNION {{[t EXCEPT !.confirmed = WithBadHeader(@)],
          [t EXCEPT !.deaths = WithBadHeader(@)],
          [t EXCEPT !.recovered = WithBadHeader(@)],
          [t EXCEPT !.recovered = WithBadHeader(WideTable(<<>>, <<>>))],
          [t EXCEPT !.confirmed = NoDateColumns(@)],
          [t EXCEPT !.recovered = NoDateColumns(@)],
          [confirmed |-> NoDateColumns(t.confirmed), deaths |-> NoDateColumns(t.deaths),
           recovered |-> NoDateColumns(t.recovered)],
          [t EXCEPT !.confirmed = NoDateColumns(@), !.deaths = WithBadHeader(@)]} :
         t \in JhuFew}

\* what the loading cell can have read
Loaded ==
  (JhuTables \X OwidFew) \cup (JhuFew \X OwidTables) \cup (JhuBroken \X OwidFew)

\* what can be typed at the prompt
UserInputs ==
  {<<>>,
   <<"Kenya">>,
   <<"US", ",", " ", "Kenya">>,
   <<" ", "United", " ", "States", " ">>,
   <<"China", ",", "Atlantis">>,
   <<"Kenya", ",", "China">>,
   <<"Kenya", ",">>}

(***************************************************************************)
(* The cell, statement by statement.                                       *)
(***************************************************************************)
Init ==
  /\ pc = "reshape"
  /\ \E l \in Loaded :
       /\ df_confirmed = l[1].confirmed
       /\ df_deaths = l[1].deaths
       /\ df_recovered = l[1].recovered
       /\ df_owid = l[2]
  /\ df_confirmed_long = <<>>
  /\ df_deaths_long = <<>>
  /\ df_recovered_long = <<>>
  /\ df_jhu = <<>>
  /\ user_input = <<>>
  /\ countries = <<>>
  /\ countries_jhu = <<>>
  /\ stdout = <<>>
  /\ exception = "None"
  /\ df_jhu_filtered = <<>>
  /\ df_owid_filtered = <<>>
  /\ df_combined = <<>>

\* reshape the three JHU tables and parse the dates of all four
Reshape ==
  /\ pc = "reshape"
  /\ CanConvert(reshape_jhu(df_confirmed, "total_cases"))
  /\ CanConvert(reshape_jhu(df_deaths, "total_deaths"))
  /\ CanConvert(reshape_jhu(df_recovered, "total_recovered"))
  /\ CanConvert(df_owid)
  /\ df_confirmed_long' = ConvertDates(reshape_jhu(df_confirmed, "total_cases"))
  /\ df_deaths_long' = ConvertDates(reshape_jhu(df_deaths, "total_deaths"))
  /\ df_recovered_long' = ConvertDates(reshape_jhu(df_recovered, "total_recovered"))
  /\ df_owid' = ConvertDates(df_owid)
  /\ pc' = "merge_jhu"
  /\ UNCHANGED <<df_confirmed, df_deaths, df_recovered, df_jhu, user_input, countries,
                 countries_jhu, stdout, exception, df_jhu_filtered, df_owid_filtered, df_combined>>

\* reshape the three JHU tables; the first pd.to_datetime that cannot read a
\* date raises, and the cell stops there: the columns converted before it stay
\* converted, nothing after it is assigned
ReshapeRaises ==
  LET cl == reshape_jhu(df_confirmed, "total_cases")
      dl == reshape_jhu(df_deaths, "total_deaths")
      rl == reshape_jhu(df_recovered, "total_recovered")
  IN  /\ pc = "reshape"
      /\ ~(CanConvert(cl) /\ CanConvert(dl) /\ CanConvert(rl) /\ CanConvert(df_owid))
      /\ df_confirmed_long' = IF CanConvert(cl) THEN ConvertDates(cl) ELSE cl
      /\ df_deaths_long' =
           IF CanConvert(cl) /\ CanConvert(dl) THEN ConvertDates(dl) ELSE dl
      /\ df_recovered_long' =
           IF CanConvert(cl) /\ CanConvert(dl) /\ CanConvert(rl)
           THEN ConvertDates(rl) ELSE rl
      /\ exception' = "ValueError"
      /\ pc' = "error"
      /\ UNCHANGED <<df_confirmed, df_deaths, df_recovered, df_owid, df_jhu, user_input,
                     countries, countries_jhu, stdout, df_jhu_filtered,
                     df_owid_filtered, df_combined>>

\* merge the JHU tables and keep the OWID columns used
MergeJhuDatasets ==
  /\ pc = "merge_jhu"
  /\ df_jhu' = MergeJhu(df_confirmed_long, df_deaths_long, df_recovered_long)
  /\ df_owid' = Project(df_owid, owid_columns)
  /\ pc' = "input"
  /\ UNCHANGED <<df_confirmed, df_deaths, df_recovered, df_confirmed_long,
                 df_deaths_long, df_recovered_long, user_input, countries,
                 countries_jhu, stdout, exception, df_jhu_filtered, df_owid_filtered, df_combined>>

\* read the selection at the prompt
SelectCountries ==
  /\ pc = "input"
  /\ \E typed \in UserInputs :
       /\ user_input' = typed
       /\ countries' = Countries(typed)
       /\ countries_jhu' = CountriesJhu(Countries(typed))
  /\ stdout' = stdout \o Printed
  /\ pc' = "filter"
  /\ UNCHANGED <<df_confirmed, df_deaths, df_recovered, df_owid, df_confirmed_long,
                 df_deaths_long, df_recovered_long, df_jhu, exception, df_jhu_filtered,
                 df_owid_filtered, df_combined>>

\* filter both datasets and fill their missing values
FilterDatasets ==
  /\ pc = "filter"
  /\ df_jhu_filtered' = JhuFiltered(df_jhu, countries_jhu)
  /\ df_owid_filtered' = OwidFiltered(df_owid, countries)
  /\ pc' = "metrics"
  /\ UNCHANGED <<df_confirmed, df_deaths, df_recovered, df_owid, df_confirmed_long,
                 df_deaths_long, df_recovered_long, df_jhu, user_input, countries,
                 countries_jhu, stdout, exception, df_combined>>

\* the daily metrics and the vaccination rate
CalculateMetrics ==
  /\ pc = "metrics"
  /\ df_jhu_filtered' = DailyMetrics(df_jhu_filtered)
  /\ df_owid_filtered' = VaccinationRate(df_owid_filtered)
  /\ pc' = "merge"
  /\ UNCHANGED <<df_confirmed, df_deaths, df_recovered, df_owid, df_confirmed_long,
                 df_deaths_long, df_recovered_long, df_jhu, user_input, countries,
                 countries_jhu, stdout, exception, df_combined>>

\* rename the JHU countries and left-join the OWID table
MergeCombined ==
  /\ pc = "merge"
  /\ df_jhu_filtered' = ReplaceCountry(df_jhu_filtered)
  /\ df_combined' = MergeDatasets(ReplaceCountry(df_jhu_filtered), df_owid_filtered)
  /\ pc' = "done"
  /\ UNCHANGED <<df_confirmed, df_deaths, df_recovered, df_owid, df_confirmed_long,
                 df_deaths_long, df_recovered_long, df_jhu, user_input, countries,
                 countries_jhu, stdout, exception, df_owid_filtered>>

Next ==
  \/ Reshape
  \/ ReshapeRaises
  \/ MergeJhuDatasets
  \/ SelectCountries
  \/ FilterDatasets
  \/ CalculateMetrics
  \/ MergeCombined

Spec == Init /\ [][Next]_vars

\* df_combined as the cell computes it from df_jhu, df_owid and the selection cs
PanelOf(jhu, owid, cs) ==
  MergeDatasets(ReplaceCountry(DailyMetrics(JhuFiltered(jhu, CountriesJhu(cs)))),
                VaccinationRate(OwidFiltered(owid, cs)))


(***************************************************************************)
(* The properties of the panel.                                            *)
(***************************************************************************)
Done == pc = "done"

\* the (country, date) pairs of a table
Pairs(df) == {<<df[i].Country_Region, df[i].date>> : i \in 1..Len(df)}

\* the (country, date) pairs of the JHU panel that the selection keeps, the
\* country under its OWID name
FilteredJhuPairs ==
  {<<get(jhu_to_owid, df_jhu[i].Country_Region), df_jhu[i].date>> :
     i \in {q \in 1..Len(df_jhu) : df_jhu[q].Country_Region \in Range(countries_jhu)}}

\* the (location, date) pairs of the OWID table
OwidPairs == {<<df_owid[i].location, df_owid[i].date>> : i \in 1..Len(df_owid)}

\* C1: the (country, date) pairs of the output panel are exactly those of the
\* selection-filtered JHU panel: the left join with the OWID table loses none
\* and adds none, so a pair that only OWID holds is never in the output.
C1_LeftJoinKeepsPairs ==
  Done => /\ Pairs(df_combined) = FilteredJhuPairs
          /\ \A p \in OwidPairs \ FilteredJhuPairs : p \notin Pairs(df_combined)

\* C1 witness: a finished run whose panel has a row that matched an OWID record,
\* a row that matched none, and a selected OWID record on a day JHU does not hold.
C1_Witness ==
  /\ Done
  /\ \E i \in 1..Len(df_combined) : df_combined[i].iso_code # NaNObj
  /\ \E i \in 1..Len(df_combined) : df_combined[i].iso_code = NaNObj
  /\ \E i \in 1..Len(df_owid_filtered) :
       <<df_owid_filtered[i].location, df_owid_filtered[i].date>> \notin Pairs(df_jhu)

\* C2: the output panel has exactly one row per (country, date) pair, also when
\* the JHU tables hold several Province/State rows of one country.
C2_OneRowPerPair ==
  Done => \A i, j \in 1..Len(df_combined) :
            /\ df_combined[i].Country_Region = df_combined[j].Country_Region
            /\ df_combined[i].date = df_combined[j].date
            => i = j

\* C3: when the selection holds an OWID name N and the JHU panel holds rows
\* under a key that jhu_to_owid rewrites to N, the output panel holds a row
\* labelled N for each date of that key; a key the map does not hold is
\* returned unchanged by the resolver.
C3_AliasedCountrySelected ==
  /\ \A c \in {"Kenya", "India", "China", "United States"} : get(jhu_to_owid, c) = c
  /\ Done =>
       \A n \in Range(countries) : \A i \in 1..Len(df_jhu) :
         /\ df_jhu[i].Country_Region \in DOMAIN jhu_to_owid
         /\ jhu_to_owid[df_jhu[i].Country_Region] = n
         => <<n, df_jhu[i].date>> \in Pairs(df_combined)

\* the rows of the panel before row i that are of row i's country
EarlierRows(i) ==
  {j \in 1..(i - 1) : df_combined[j].Country_Region = df_combined[i].Country_Region}

\* the last of them
PreviousRow(i) == CHOOSE j \in EarlierRows(i) : \A q \in EarlierRows(i) : q <= j

\* C4: the rows of a country are in ascending date order; new_cases and
\* new_deaths are 0 on the country's first row and on every later row the
\* row's total minus the total of the country's previous row, not clamped.
C4_DailyDeltas ==
  Done =>
    \A i \in 1..Len(df_combined) :
      IF EarlierRows(i) = {}
      THEN /\ df_combined[i].new_cases = Float(0)
           /\ df_combined[i].new_deaths = Float(0)
      ELSE LET r == df_combined[i]
               p == df_combined[PreviousRow(i)]
           IN  /\ p.date <= r.date
               /\ r.new_cases.k = "num" /\ r.new_cases.d = 1
               /\ r.new_cases.n = r.total_cases.n - p.total_cases.n
               /\ r.new_deaths.k = "num" /\ r.new_deaths.d = 1
               /\ r.new_deaths.n = r.total_deaths.n - p.total_deaths.n

\* C4 witness: a finished panel of two countries, one whose counter fell (a
\* negative new_cases) and another whose counter rose.
C4_Witness ==
  /\ Done
  /\ \E i, j \in 1..Len(df_combined) :
       /\ df_combined[i].Country_Region # df_combined[j].Country_Region
       /\ df_combined[i].new_cases.n < 0
       /\ df_combined[j].new_cases.n > 0
       /\ EarlierRows(i) # {} /\ EarlierRows(j) # {}

\* a float is a number below or equal to zero
NonPositive(x) == x.k = "num" /\ x.n <= 0

\* C5: in every output row vaccination_rate is unset when population is unset
\* or <= 0, and is people_fully_vaccinated / population * 100 when population
\* is known and positive.
C5_VaccinationRate ==
  Done =>
    \A i \in 1..Len(df_combined) :
      LET r == df_combined[i]
      IN  /\ (IsNaN(r.population) \/ NonPositive(r.population))
               => IsNaN(r.vaccination_rate)
          /\ (r.population.k = "num" /\ r.population.n > 0)
               => /\ r.vaccination_rate.k = "num"
                  /\ r.vaccination_rate.n * r.population.n * r.people_fully_vaccinated.d
                       = 100 * r.people_fully_vaccinated.n * r.population.d
                           * r.vaccination_rate.d

\* C6: in every output row total_vaccinations and people_fully_vaccinated are
\* set (0 where OWID gave no value, also in a row that matched no OWID record),
\* and population stays unset in a row that matched no OWID record.
C6_VaccinationsFilled ==
  Done =>
    \A i \in 1..Len(df_combined) :
      LET r == df_combined[i]
      IN  /\ ~IsNaN(r.total_vaccinations)
          /\ ~IsNaN(r.people_fully_vaccinated)
          /\ <<r.Country_Region, r.date>> \notin OwidPairs => IsNaN(r.population)

\* C7: in every output row death_rate is a finite number: total_deaths itself
\* when total_cases is 0, and total_deaths / total_cases otherwise.
C7_DeathRate ==
  Done =>
    \A i \in 1..Len(df_combined) :
      LET r == df_combined[i]
      IN  /\ r.death_rate.k = "num"
          /\ r.total_cases = Float(0) => r.death_rate = r.total_deaths
          /\ r.total_cases # Float(0)
               => r.death_rate.n * r.total_cases.n * r.total_deaths.d
                    = r.total_deaths.n * r.total_cases.d * r.death_rate.d

\* C7 witness: a finished panel with a row of no cases but a death, and a row
\* whose rate is a proper fraction.
C7_Witness ==
  /\ Done
  /\ \E i \in 1..Len(df_combined) :
       /\ df_combined[i].total_cases = Float(0)
       /\ df_combined[i].total_deaths.n > 0
  /\ \E i \in 1..Len(df_combined) : df_combined[i].death_rate.d > 1


\* the statements after the prompt have the selection
Selected == pc \in {"filter", "metrics", "merge", "done"}

\* the positions of the commas of the typed text s
Commas(s) == {i \in 1..Len(s) : s[i] = ","}

\* the piece of s between its (k-1)th and its kth comma, blanks at its ends left out
TrimmedPiece(s, k) ==
  LET after == {i \in Commas(s) : Cardinality({j \in Commas(s) : j <= i}) = k - 1}
      upto == {i \in Commas(s) : Cardinality({j \in Commas(s) : j <= i}) = k}
      lo == IF after = {} THEN 1 ELSE (CHOOSE i \in after : TRUE) + 1
      hi == IF upto = {} THEN Len(s) ELSE (CHOOSE i \in upto : TRUE) - 1
      inked == {i \in lo..hi : s[i] # " "}
  IN  IF inked = {} THEN <<>>
      ELSE SubSeq(s, CHOOSE a \in inked : \A b \in inked : a <= b,
                     CHOOSE a \in inked : \A b \in inked : b <= a)

\* the names a non-empty typed text gives: its comma-separated pieces, trimmed
TypedNames(s) ==
  [k \in 1..(Cardinality(Commas(s)) + 1) |-> Text(TrimmedPiece(s, k))]

\* the (country, date) pairs the JHU panel holds under the default names
DefaultJhuPairs ==
  {<<df_jhu[i].Country_Region, df_jhu[i].date>> :
     i \in {q \in 1..Len(df_jhu) :
              df_jhu[q].Country_Region \in {"Kenya", "United States", "India"}}}

\* C8 as stated: an empty selection is replaced by the defaults Kenya, United
\* States, India and so never gives an empty panel; a non-empty selection is
\* split on commas, each name trimmed, and used in place of the defaults.
C8_DefaultNeverEmptyPanel ==
  Selected =>
    /\ user_input = <<>> =>
         /\ countries = <<"Kenya", "United States", "India">>
         /\ Done => df_combined # <<>>
    /\ user_input # <<>> => countries = TypedNames(user_input)

\* C8 as amended: an empty selection is replaced by the defaults Kenya, United
\* States, India, and the panel then holds exactly the (country, date) pairs
\* the JHU panel holds under those three names (none, when it holds none); a
\* non-empty selection is split on commas, each name trimmed, and used instead.
C8_DefaultSelection ==
  Selected =>
    /\ user_input = <<>> =>
         /\ countries = <<"Kenya", "United States", "India">>
         /\ Done => Pairs(df_combined) = DefaultJhuPairs
    /\ user_input # <<>> => countries = TypedNames(user_input)

\* C8 witness: a finished run with nothing typed, the defaults in use and a
\* panel that holds rows.
C8_Witness ==
  /\ Done
  /\ user_input = <<>>
  /\ countries = default_countries
  /\ df_combined # <<>>

\* a selected name that neither source holds, also under its OWID alias
Absent(name) ==
  /\ \A i \in 1..Len(df_jhu) :
       df_jhu[i].Country_Region \notin {name, get(jhu_to_owid, name)}
  /\ \A i \in 1..Len(df_owid) : df_owid[i].location # name

\* the selection without the name
Without(name) == SelectSeq(countries, LAMBDA c : c # name)

\* what a run that selected the absent name gives for the other names
OthersUnaffected(name) ==
  /\ \A i \in 1..Len(df_combined) :
       /\ df_combined[i].Country_Region # name
       /\ df_combined[i].Country_Region \in Range(CountriesJhu(Without(name)))
  /\ df_combined = PanelOf(df_jhu, df_owid, Without(name))

Reshaped == pc \notin {"reshape", "error"}

\* the wide table has a date column
HasDateColumn(df) == Len(df.columns) > 4

\* the items of s, each once, in the order of their first occurrence
Distinct(s) ==
  LET firsts == {i \in 1..Len(s) : \A j \in 1..(i - 1) : s[j] # s[i]}
      nth(k) == CHOOSE i \in firsts : Cardinality({j \in firsts : j <= i}) = k
  IN  [k \in 1..Cardinality(firsts) |-> s[nth(k)]]

\* the identifier cells of a long record, and its country alone
RecordIds(r) == <<r.Province_State, r.Country_Region, r.Lat, r.Long>>
RecordCountry(r) == <<r.Country_Region>>

\* the long table widened again: a row per key, a column per date, in a cell
\* the values of the records of that key and date
Rewiden(long, Key(_), value_name) ==
  LET keys == Distinct([i \in 1..Len(long) |-> Key(long[i])])
      dates == Distinct([i \in 1..Len(long) |-> long[i].date])
  IN  [columns |-> dates,
       rows |-> [r \in 1..Len(keys) |->
                  [key |-> keys[r],
                   cells |-> [c \in 1..Len(dates) |->
                     {long[q][value_name] :
                        q \in {q \in 1..Len(long) :
                                 Key(long[q]) = keys[r] /\ long[q].date = dates[c]}}]]]]

\* the wide table in that shape: its headers as dates, one value in each cell,
\* a row's key its cells from column `from` to column `to`
Widened(df, from, to) ==
  [columns |-> [j \in 1..(Len(df.columns) - 4) |-> to_datetime(df.columns[4 + j])],
   rows |-> [i \in 1..Len(df.rows) |->
              [key |-> SubSeq(df.rows[i], from, to),
               cells |-> [j \in 1..(Len(df.columns) - 4) |-> {df.rows[i][4 + j]}]]]]

\* a record for each (row, date column) of df: as many records as such pairs,
\* and for each pair a record of the row's identifiers, the column's date and
\* the cell's value
OneRecordPerCell(df, long, value_name) ==
  /\ Len(long) = Len(df.rows) * (Len(df.columns) - 4)
  /\ \A i \in 1..Len(df.rows) : \A j \in 5..Len(df.columns) :
       \E q \in 1..Len(long) :
         /\ RecordIds(long[q]) = SubSeq(df.rows[i], 1, 4)
         /\ long[q].date = to_datetime(df.columns[j])
         /\ long[q][value_name] = df.rows[i][j]

\* C10 as stated: a wide table with a date column reshapes to one record per
\* (row, date column), and widening the records again by (country, date, value)
\* gives the original table back.
C10_RoundTripByCountry ==
  Reshaped =>
    /\ HasDateColumn(df_confirmed) =>
         /\ OneRecordPerCell(df_confirmed, df_confirmed_long, "total_cases")
         /\ Rewiden(df_confirmed_long, RecordCountry, "total_cases")
              = Widened(df_confirmed, 2, 2)
    /\ HasDateColumn(df_deaths) =>
         /\ OneRecordPerCell(df_deaths, df_deaths_long, "total_deaths")
         /\ Rewiden(df_deaths_long, RecordCountry, "total_deaths") = Widened(df_deaths, 2, 2)

\* C10 as amended: a wide table with a date column and a row, its rows of
\* distinct identifiers, reshapes to one record per (row, date column), and
\* widening the records again by (Province/State, Country/Region, Lat, Long,
\* date, value) gives the original table back, its headers read as dates.
C10_RoundTripByIdentifiers ==
  Reshaped =>
    /\ HasDateColumn(df_confirmed) =>
         /\ OneRecordPerCell(df_confirmed, df_confirmed_long, "total_cases")
         /\ Rewiden(df_confirmed_long, RecordIds, "total_cases") = Widened(df_confirmed, 1, 4)
    /\ HasDateColumn(df_deaths) =>
         /\ OneRecordPerCell(df_deaths, df_deaths_long, "total_deaths")
         /\ Rewiden(df_deaths_long, RecordIds, "total_deaths") = Widened(df_deaths, 1, 4)
    /\ HasDateColumn(df_recovered) =>
         /\ OneRecordPerCell(df_recovered, df_recovered_long, "total_recovered")
         /\ df_recovered.rows # <<>> =>
              Rewiden(df_recovered_long, RecordIds, "total_recovered")
                = Widened(df_recovered, 1, 4)

\* C10 witness: a reshaped confirmed table of two rows of one country, with a
\* record for each of its cells.
C10_Witness ==
  /\ Reshaped
  /\ HasDateColumn(df_confirmed)
  /\ Len(df_confirmed.rows) = 2
  /\ df_confirmed.rows[1][2] = df_confirmed.rows[2][2]
  /\ Len(df_confirmed_long) = 2 * NumDates


\* the wide tables, in the order the notebook converts their dates
WideTables == <<df_confirmed, df_deaths, df_recovered>>

\* the wide table has the unreadable header among its date headers
HasBadHeader(df) == \E j \in 5..Len(df.columns) : df.columns[j] = BadHeader

\* the wide table has the unreadable header and a row to carry it
BadHeaderRead(df) == HasBadHeader(df) /\ df.rows # <<>>

\* the reshaping cell has run, to its end or to an exception
ReshapeRan == pc # "reshape"

C11_NoDatesWitness ==
  /\ Done
  /\ ~HasDateColumn(df_recovered)
  /\ df_recovered.rows # <<>>
  /\ df_combined # <<>>

=============================================================================
